---- MODULE Spec2Model ----
(***************************************************************************)
(* Conway's Game of Life with wormholes (gol_wormhole.py).                 *)
(*                                                                         *)
(* The program reads a starting grid and two tunnel images, builds the     *)
(* two portal indices, and runs 1000 generations, saving four of them.     *)
(* A Location is <<row, col>>; an image is a record [width, height,        *)
(* pixels] whose pixels are indexed <<x, y>> = <<col, row>> as PIL does.   *)
(* A Python dict is a function; a missing key is a location or colour      *)
(* outside its DOMAIN.                                                     *)
(***************************************************************************)
EXTENDS Integers, Sequences, FiniteSets, TLC

VARIABLES
    pc,               \* position in main(): "load_board", "load_h", "load_v", "loop", "done"
    files,            \* the three input images and the directory argument
    board,            \* board[<<r, c>>] \in {0, 1}
    width, height,    \* the grid's dimensions (from the starting image)
    h_portals_loc, h_portals_color,   \* horizontal PortalIndex
    v_portals_loc, v_portals_color,   \* vertical PortalIndex
    memo_neighbors,   \* the module-level cache: <<r, c, dr, dc>> -> <<nr, nc>>
    live_neighbors,   \* step's local live_neighbors, per cell, of the last step
    prev_board,       \* the board the last step call was given
    prev_memo,        \* memo_neighbors as the last step call found it
    i,                \* main's loop variable
    saved             \* the save_board calls made so far, in order

vars == <<pc, files, board, width, height, h_portals_loc, h_portals_color,
          v_portals_loc, v_portals_color, memo_neighbors, live_neighbors, prev_board,
          prev_memo, i, saved>>

----------------------------------------------------------------------------
(* Colours *)

BLACK == <<0, 0, 0>>
WHITE == <<255, 255, 255>>
RED == <<255, 0, 0>>

\* An empty Python dict.
EmptyDict == [x \in {} |-> 0]

\* range(n)
Range(n) == 0 .. (n - 1)

\* The Locations <<r, c>> of an h-by-w grid.
Locs(h, w) == Range(h) \X Range(w)

\* d[k] = v on a Python dict.
DictSet(d, k, v) == (k :> v) @@ d

\* The element of a one-element set. A value that a later statement reads
\* several times is bound once as x in {F(x) : x \in {value}}, as an
\* assignment to a Python local binds it.
The(S) == CHOOSE x \in S : TRUE

----------------------------------------------------------------------------
(* load_board *)

\* The pixel loop of load_board: 1 where the pixel is WHITE, else 0.
load_board(img) ==
    [board |-> [loc \in Locs(img.height, img.width) |->
                    IF img.pixels[<<loc[2], loc[1]>>] = WHITE THEN 1 ELSE 0],
     width |-> img.width,
     height |-> img.height]

----------------------------------------------------------------------------
(* load_tunnels *)

\* temp_portals_by_color[color].append(location) on the defaultdict; keys
\* keeps the dict's insertion order, which the second pass iterates in.
TempAppend(temp, color, location) ==
    IF color \in DOMAIN temp.lists
    THEN [temp EXCEPT !.lists[color] = Append(@, location)]
    ELSE [keys |-> Append(temp.keys, color),
          lists |-> DictSet(temp.lists, color, <<location>>)]

\* First pass, from the k-th pixel of the row-major scan
\* (for r in range(height): for c in range(width)).
RECURSIVE FirstPass(_, _, _)
FirstPass(img, k, temp) ==
    IF k >= img.height * img.width THEN temp
    ELSE LET r == k \div img.width
             c == k % img.width
             color == img.pixels[<<c, r>>]
         IN  FirstPass(img, k + 1,
                       IF color # BLACK THEN TempAppend(temp, color, <<r, c>>)
                       ELSE temp)

\* What both accepting branches of the second pass do: register the pair.
RegisterPair(out, color, locations) ==
    LET loc1 == locations[1]
        loc2 == locations[2]
    IN  [color |-> DictSet(out.color, color, <<loc1, loc2>>),
         loc |-> DictSet(DictSet(out.loc, loc1, color), loc2, color)]

\* ProcessColor with the count > 2 branch keeping the last two locations.
ProcessColor_LastTwo(out, color, locations) ==
    LET count == Len(locations) IN
    IF count = 2 THEN RegisterPair(out, color, locations)
    ELSE IF count > 2 THEN RegisterPair(out, color, SubSeq(locations, count - 1, count))
    ELSE out

\* The body of the second pass for one colour: count == 2, count > 2
\* (warn, use the first two), else ignore the colour.
ProcessColor(out, color, locations) ==
    LET count == Len(locations) IN
    IF count = 2 THEN RegisterPair(out, color, locations)
    ELSE IF count > 2 THEN RegisterPair(out, color, locations)
    ELSE out

\* Second pass, over temp_portals_by_color.items() from its n-th item.
RECURSIVE SecondPass(_, _, _)
SecondPass(temp, n, out) ==
    IF n > Len(temp.keys) THEN out
    ELSE SecondPass(temp, n + 1,
                    ProcessColor(out, temp.keys[n], temp.lists[temp.keys[n]]))

\* load_tunnels(filepath): [loc |-> portals_by_loc, color |-> portals_by_color].
load_tunnels(img) ==
    SecondPass(FirstPass(img, 0, [keys |-> <<>>, lists |-> EmptyDict]), 1,
               [loc |-> EmptyDict, color |-> EmptyDict])

----------------------------------------------------------------------------
(* Neighbour resolution *)

\* A function's outcome: the Location it returns, or a raised ValueError.
Returns(loc) == [raised |-> FALSE, loc |-> loc]
ValueError == [raised |-> TRUE, loc |-> <<0, 0>>]

\* get_other_portal(r, c, color, portals_by_color)
get_other_portal(r, c, color, portals_by_color) ==
    IF color \notin DOMAIN portals_by_color THEN ValueError
    ELSE LET locations == portals_by_color[color] IN
         IF Len(locations) # 2 THEN ValueError
         ELSE IF locations[1] = <<r, c>> THEN Returns(locations[2])
         ELSE IF locations[2] = <<r, c>> THEN Returns(locations[1])
         ELSE ValueError

\* (r_other + a, c_other + b); a ValueError propagates.
Shifted(other, a, b) ==
    IF other.raised THEN ValueError ELSE Returns(<<other.loc[1] + a, other.loc[2] + b>>)

\* The state of get_actual_neighbor's locals after one block:
\* (nr_res, nc_res) and wormhole_applied ("None" for None, "raised" when
\* the block's get_other_portal raised and the function was left).
Applied(got, tag) ==
    [res |-> got.loc, wormhole_applied |-> IF got.raised THEN "raised" ELSE tag]

\* The arguments step hands down unchanged to count_live_neighbors and
\* get_actual_neighbor, as one record g: width, height, h_portals_loc,
\* h_portals_color, v_portals_loc, v_portals_color.
Args(w, h, h_loc, h_color, v_loc, v_color) ==
    [width |-> w, height |-> h, h_portals_loc |-> h_loc, h_portals_color |-> h_color,
     v_portals_loc |-> v_loc, v_portals_color |-> v_color]

\* The top check landing two rows above the other endpoint.
TopCheck_TwoRows(s, r, c, dr, dc, g) ==
    IF <<r, c>> \in DOMAIN g.v_portals_loc /\ dr = -1
    THEN Applied(Shifted(get_other_portal(r, c, g.v_portals_loc[<<r, c>>],
                                          g.v_portals_color), -2, dc), "top")
    ELSE s

\* 1. Top Wormhole Check (lines 141-146).
TopCheck(s, r, c, dr, dc, g) ==
    IF <<r, c>> \in DOMAIN g.v_portals_loc /\ dr = -1
    THEN Applied(Shifted(get_other_portal(r, c, g.v_portals_loc[<<r, c>>],
                                          g.v_portals_color), -1, dc), "top")
    ELSE s

\* The right check without its not wormhole_applied condition.
RightCheck_Unguarded(s, r, c, dr, dc, g) ==
    IF <<r, c>> \in DOMAIN g.h_portals_loc /\ dc = 1
    THEN Applied(Shifted(get_other_portal(r, c, g.h_portals_loc[<<r, c>>],
                                          g.h_portals_color), dr, 1), "right")
    ELSE s

\* 2. Right Wormhole Check (lines 148-153).
RightCheck(s, r, c, dr, dc, g) ==
    IF s.wormhole_applied = "None" /\ <<r, c>> \in DOMAIN g.h_portals_loc /\ dc = 1
    THEN Applied(Shifted(get_other_portal(r, c, g.h_portals_loc[<<r, c>>],
                                          g.h_portals_color), dr, 1), "right")
    ELSE s

\* 3. Bottom Wormhole Check (lines 155-160).
BottomCheck(s, r, c, dr, dc, g) ==
    IF s.wormhole_applied = "None" /\ <<r, c>> \in DOMAIN g.v_portals_loc /\ dr = 1
    THEN Applied(Shifted(get_other_portal(r, c, g.v_portals_loc[<<r, c>>],
                                          g.v_portals_color), 1, dc), "bottom")
    ELSE s

\* The left check without its not wormhole_applied condition.
LeftCheck_Unguarded(s, r, c, dr, dc, g) ==
    IF <<r, c>> \in DOMAIN g.h_portals_loc /\ dc = -1
    THEN Applied(Shifted(get_other_portal(r, c, g.h_portals_loc[<<r, c>>],
                                          g.h_portals_color), dr, -1), "left")
    ELSE s

\* 4. Left Wormhole Check (lines 162-167).
LeftCheck(s, r, c, dr, dc, g) ==
    IF s.wormhole_applied = "None" /\ <<r, c>> \in DOMAIN g.h_portals_loc /\ dc = -1
    THEN Applied(Shifted(get_other_portal(r, c, g.h_portals_loc[<<r, c>>],
                                          g.h_portals_color), dr, -1), "left")
    ELSE s

\* The symmetric chain with its first two branches exchanged: the
\* Horizontal dc = -1 sub-rule tried before the Vertical dr = +1 one.
SymmetricChain_LeftFirst(s, r, c, dr, dc, nr_std, nc_std, g) ==
    IF <<nr_std, nc_std>> \in DOMAIN g.h_portals_loc /\ dc = -1
    THEN Applied(Shifted(get_other_portal(nr_std, nc_std,
                                          g.h_portals_loc[<<nr_std, nc_std>>],
                                          g.h_portals_color),
                         r - nr_std, -1), "symm_left_target")
    ELSE IF <<nr_std, nc_std>> \in DOMAIN g.v_portals_loc /\ dr = 1
    THEN Applied(Shifted(get_other_portal(nr_std, nc_std,
                                          g.v_portals_loc[<<nr_std, nc_std>>],
                                          g.v_portals_color),
                         -1, c - nc_std), "symm_top_target")
    ELSE IF <<nr_std, nc_std>> \in DOMAIN g.v_portals_loc /\ dr = -1
    THEN Applied(Shifted(get_other_portal(nr_std, nc_std,
                                          g.v_portals_loc[<<nr_std, nc_std>>],
                                          g.v_portals_color),
                         1, c - nc_std), "symm_bottom_target")
    ELSE IF <<nr_std, nc_std>> \in DOMAIN g.h_portals_loc /\ dc = 1
    THEN Applied(Shifted(get_other_portal(nr_std, nc_std,
                                          g.h_portals_loc[<<nr_std, nc_std>>],
                                          g.h_portals_color),
                         r - nr_std, 1), "symm_right_target")
    ELSE s

\* The if/elif chain of the symmetric check (lines 177-207) on the standard
\* neighbour (nr_std, nc_std), which is within bounds.
SymmetricChain(s, r, c, dr, dc, nr_std, nc_std, g) ==
    IF <<nr_std, nc_std>> \in DOMAIN g.v_portals_loc /\ dr = 1
    THEN Applied(Shifted(get_other_portal(nr_std, nc_std,
                                          g.v_portals_loc[<<nr_std, nc_std>>],
                                          g.v_portals_color),
                         -1, c - nc_std), "symm_top_target")
    ELSE IF <<nr_std, nc_std>> \in DOMAIN g.h_portals_loc /\ dc = -1
    THEN Applied(Shifted(get_other_portal(nr_std, nc_std,
                                          g.h_portals_loc[<<nr_std, nc_std>>],
                                          g.h_portals_color),
                         r - nr_std, -1), "symm_left_target")
    ELSE IF <<nr_std, nc_std>> \in DOMAIN g.v_portals_loc /\ dr = -1
    THEN Applied(Shifted(get_other_portal(nr_std, nc_std,
                                          g.v_portals_loc[<<nr_std, nc_std>>],
                                          g.v_portals_color),
                         1, c - nc_std), "symm_bottom_target")
    ELSE IF <<nr_std, nc_std>> \in DOMAIN g.h_portals_loc /\ dc = 1
    THEN Applied(Shifted(get_other_portal(nr_std, nc_std,
                                          g.h_portals_loc[<<nr_std, nc_std>>],
                                          g.h_portals_color),
                         r - nr_std, 1), "symm_right_target")
    ELSE s

\* The symmetric check (lines 169-207): entered only when no departure
\* check applied, and only for a standard neighbour within bounds.
SymmetricCheck(s, r, c, dr, dc, g) ==
    IF s.wormhole_applied # "None" THEN s
    ELSE IF 0 <= r + dr /\ r + dr < g.height /\ 0 <= c + dc /\ c + dc < g.width
    THEN SymmetricChain(s, r, c, dr, dc, r + dr, c + dc, g)
    ELSE s

\* get_actual_neighbor past the cache lookup (lines 136-207): the locals
\* after the four departure checks and the symmetric check, in that order.
Resolve(r, c, dr, dc, g) ==
    The({SymmetricCheck(s4, r, c, dr, dc, g) :
            s4 \in {LeftCheck(s3, r, c, dr, dc, g) :
                s3 \in {BottomCheck(s2, r, c, dr, dc, g) :
                    s2 \in {RightCheck(s1, r, c, dr, dc, g) :
                        s1 \in {TopCheck([res |-> <<r + dr, c + dc>>,
                                          wormhole_applied |-> "None"],
                                         r, c, dr, dc, g)}}}}})

\* Lines 210-212: cache the result before returning, unless the call raised.
CacheAndReturn(memo, cache_key, s) ==
    IF s.wormhole_applied = "raised"
    THEN [res |-> s.res, memo |-> memo, raised |-> TRUE]
    ELSE [res |-> s.res, memo |-> DictSet(memo, cache_key, s.res), raised |-> FALSE]

\* get_actual_neighbor on the cache memo: the value returned (unless it
\* raised) and the cache afterwards.
get_actual_neighbor(memo, r, c, dr, dc, g) ==
    IF <<r, c, dr, dc>> \in DOMAIN memo
    THEN [res |-> memo[<<r, c, dr, dc>>], memo |-> memo, raised |-> FALSE]
    ELSE The({CacheAndReturn(memo, <<r, c, dr, dc>>, s) : s \in {Resolve(r, c, dr, dc, g)}})

----------------------------------------------------------------------------
(* Simulator *)

\* The eight offsets in the order of the two loops
\* for dr in [-1, 0, 1]: for dc in [-1, 0, 1], the centre skipped.
Offsets ==
    << <<-1, -1>>, <<-1, 0>>, <<-1, 1>>, <<0, -1>>, <<0, 1>>,
       <<1, -1>>, <<1, 0>>, <<1, 1>> >>

\* The increment without the lower bounds: Python reads a negative index
\* from the end of the list.
Contribution_NoLowerBound(nb, b, g) ==
    IF nb[1] < g.height /\ nb[2] < g.width
    THEN b[<<nb[1] % g.height, nb[2] % g.width>>]
    ELSE 0

\* Lines 229-232: the count's increment for a resolved neighbour (nr, nc),
\* bounds-checked before the board is read.
Contribution(nb, b, g) ==
    IF 0 <= nb[1] /\ nb[1] < g.height /\ 0 <= nb[2] /\ nb[2] < g.width THEN b[nb] ELSE 0

\* The body of count_live_neighbors' loop for the k-th offset, entered
\* with the locals so far: the count, the cache, and whether a lookup raised.
CountNext(got, so_far, b, g) ==
    IF got.raised THEN [count |-> so_far.count, memo |-> got.memo, raised |-> TRUE]
    ELSE [count |-> so_far.count + Contribution(got.res, b, g),
          memo |-> got.memo, raised |-> FALSE]

CountOffset(so_far, k, r, c, b, g) ==
    IF so_far.raised THEN so_far
    ELSE The({CountNext(got, so_far, b, g) :
                got \in {get_actual_neighbor(so_far.memo, r, c,
                                             Offsets[k][1], Offsets[k][2], g)}})

\* count_live_neighbors(r, c, board, ...) on the cache memo; after[k] is
\* the state of the locals after k of the eight offsets.
count_live_neighbors(memo, r, c, b, g) ==
    LET after[k \in 0 .. Len(Offsets)] ==
            IF k = 0 THEN [count |-> 0, memo |-> memo, raised |-> FALSE]
            ELSE The({CountOffset(so_far, k, r, c, b, g) : so_far \in {after[k - 1]}})
    IN  after[Len(Offsets)]

\* Rule without the upper limit of survival: a live cell dies only of
\* underpopulation.
Rule_NoOverpopulation(current_state, n) ==
    IF current_state = 1
    THEN (IF n < 2 THEN 0 ELSE 1)
    ELSE (IF n = 3 THEN 1 ELSE 0)

\* Apply Game of Life rules (lines 251-259); new_board starts all zero.
Rule(current_state, n) ==
    IF current_state = 1
    THEN (IF n < 2 \/ n > 3 THEN 0 ELSE 1)
    ELSE (IF n = 3 THEN 1 ELSE 0)

\* The body of step's double loop for cell (r, c) once
\* count_live_neighbors has returned got; acc is [new_board, memo, counts,
\* raised] so far.
StepNext(got, acc, r, c, b) ==
    IF got.raised
    THEN [acc EXCEPT !.memo = got.memo, !.raised = TRUE]
    ELSE [new_board |-> [acc.new_board EXCEPT ![<<r, c>>] = Rule(b[<<r, c>>], got.count)],
          memo |-> got.memo,
          counts |-> DictSet(acc.counts, <<r, c>>, got.count),
          raised |-> FALSE]

StepCell(acc, r, c, b, g) ==
    IF acc.raised THEN acc
    ELSE The({StepNext(got, acc, r, c, b) :
                got \in {count_live_neighbors(acc.memo, r, c, b, g)}})

\* step without the clear: the cache is kept from call to call.
Cleared_Kept(memo) == memo

\* memo_neighbors.clear()
Cleared(memo) == EmptyDict

\* step(board, ...) entered with the cache memo: the new board, the cache
\* it leaves, each cell's live_neighbors, and whether a ValueError escaped.
\* after[k] is the state of the locals after k cells of the row-major
\* double loop (for r in range(height): for c in range(width)).
step(memo, b, g) ==
    LET after[k \in 0 .. g.height * g.width] ==
            IF k = 0
            THEN [new_board |-> [loc \in DOMAIN b |-> 0], memo |-> Cleared(memo),
                  counts |-> EmptyDict, raised |-> FALSE]
            ELSE The({StepCell(acc, (k - 1) \div g.width, (k - 1) % g.width, b, g) :
                        acc \in {after[k - 1]}})
    IN  after[g.height * g.width]

----------------------------------------------------------------------------
(* main *)

\* The set without 1000.
output_iterations_NoThousand == {1, 10, 100}

\* output_iterations = {1, 10, 100, 1000}
output_iterations == {1, 10, 100, 1000}

Max(S) == CHOOSE x \in S : \A y \in S : y <= x

max_iterations == Max(output_iterations)

\* input_dir.rstrip('/') on a string held as a sequence of characters.
RECURSIVE rstrip(_)
rstrip(str) ==
    IF Len(str) > 0 /\ str[Len(str)] = "/" THEN rstrip(SubSeq(str, 1, Len(str) - 1))
    ELSE str

DigitChars == <<"0", "1", "2", "3", "4", "5", "6", "7", "8", "9">>

\* str(n) for n >= 0, as f"{i}" formats the loop variable.
RECURSIVE FormatInt(_)
FormatInt(n) ==
    IF n < 10 THEN <<DigitChars[n + 1]>>
    ELSE FormatInt(n \div 10) \o <<DigitChars[(n % 10) + 1]>>

\* f"{base_path}/{i}.png"
output_filename(input_dir, n) ==
    rstrip(input_dir) \o <<"/">> \o FormatInt(n) \o <<".", "p", "n", "g">>

\* board, width, height = load_board(start_pos_file)
LoadBoard ==
    /\ pc = "load_board"
    /\ \E got \in {load_board(files.start)} :
        /\ board' = got.board
        /\ width' = got.width
        /\ height' = got.height
    /\ pc' = "load_h"
    /\ UNCHANGED <<files, h_portals_loc, h_portals_color, v_portals_loc, v_portals_color,
                   memo_neighbors, live_neighbors, prev_board, prev_memo, i, saved>>

\* h_portals_loc, h_portals_color = load_tunnels(h_tunnel_file)
LoadTunnelsH ==
    /\ pc = "load_h"
    /\ \E got \in {load_tunnels(files.h)} :
        /\ h_portals_loc' = got.loc
        /\ h_portals_color' = got.color
    /\ pc' = "load_v"
    /\ UNCHANGED <<files, board, width, height, v_portals_loc, v_portals_color,
                   memo_neighbors, live_neighbors, prev_board, prev_memo, i, saved>>

\* v_portals_loc, v_portals_color = load_tunnels(v_tunnel_file)
LoadTunnelsV ==
    /\ pc = "load_v"
    /\ \E got \in {load_tunnels(files.v)} :
        /\ v_portals_loc' = got.loc
        /\ v_portals_color' = got.color
    /\ pc' = "loop"
    /\ UNCHANGED <<files, board, width, height, h_portals_loc, h_portals_color,
                   memo_neighbors, live_neighbors, prev_board, prev_memo, i, saved>>

\* What step returns when called now: on the module's cache, with the
\* board and the indices main holds.
StepOutcome ==
    step(memo_neighbors, board,
         Args(width, height, h_portals_loc, h_portals_color, v_portals_loc, v_portals_color))

\* board = step(board, ...) (lines 320-322) with the outcome out. A
\* ValueError escaping step leaves board unassigned.
StepCall(out) ==
    /\ memo_neighbors' = out.memo
    /\ live_neighbors' = out.counts
    /\ prev_board' = board
    /\ prev_memo' = memo_neighbors
    /\ board' = IF out.raised THEN board ELSE out.new_board
    /\ UNCHANGED <<files, width, height, h_portals_loc, h_portals_color,
                   v_portals_loc, v_portals_color>>

\* The rest of a pass of the simulation loop (lines 319-327): save_board
\* when i is an output iteration; saved records each save_board call.
AfterStepInLoop(out) ==
    /\ i' = i + 1
    /\ saved' = IF ~out.raised /\ i' \in output_iterations
                THEN Append(saved, [filepath |-> output_filename(files.input_dir, i'),
                                    board |-> out.new_board])
                ELSE saved
    /\ pc' = IF out.raised THEN "crashed"
             ELSE IF i' = max_iterations THEN "done" ELSE "loop"

\* One pass of for i in range(1, max_iterations + 1).
MainLoop ==
    /\ pc = "loop"
    /\ i < max_iterations
    /\ \E out \in {StepOutcome} : StepCall(out) /\ AfterStepInLoop(out)

AfterStepAlone(out) ==
    /\ pc' = IF out.raised THEN "crashed" ELSE pc
    /\ UNCHANGED <<i, saved>>

\* A single call board = step(board, ...) by a caller holding a loaded
\* grid and its indices.
Step ==
    /\ pc = "loop"
    /\ \E out \in {StepOutcome} : StepCall(out) /\ AfterStepAlone(out)

\* A direct call get_actual_neighbor(r, c, dr, dc, ...) on a freshly
\* imported module (empty cache), with the loaded grid's indices.
GetActualNeighbor(r, c, dr, dc) ==
    /\ pc = "loop"
    /\ memo_neighbors = EmptyDict
    /\ \E got \in {get_actual_neighbor(memo_neighbors, r, c, dr, dc,
                                       Args(width, height, h_portals_loc, h_portals_color,
                                            v_portals_loc, v_portals_color))} :
        memo_neighbors' = got.memo
    /\ UNCHANGED <<pc, files, board, width, height, h_portals_loc, h_portals_color,
                   v_portals_loc, v_portals_color, live_neighbors, prev_board,
                   prev_memo, i, saved>>

\* Before main has read anything.
Start(f) ==
    /\ pc = "load_board"
    /\ files = f
    /\ board = EmptyDict /\ width = 0 /\ height = 0
    /\ h_portals_loc = EmptyDict /\ h_portals_color = EmptyDict
    /\ v_portals_loc = EmptyDict /\ v_portals_color = EmptyDict
    /\ memo_neighbors = EmptyDict
    /\ live_neighbors = EmptyDict
    /\ prev_board = EmptyDict
    /\ prev_memo = EmptyDict
    /\ i = 0
    /\ saved = <<>>

\* The state main is in when the loop starts, for given input files
\* (lines 300-310 done).
Loaded(f) ==
    \E b \in {load_board(f.start)}, hp \in {load_tunnels(f.h)}, vp \in {load_tunnels(f.v)} :
        /\ pc = "loop"
        /\ files = f
        /\ board = b.board /\ width = b.width /\ height = b.height
        /\ h_portals_loc = hp.loc /\ h_portals_color = hp.color
        /\ v_portals_loc = vp.loc /\ v_portals_color = vp.color
        /\ memo_neighbors = EmptyDict
        /\ live_neighbors = EmptyDict
        /\ prev_board = EmptyDict
        /\ prev_memo = EmptyDict
        /\ i = 0
        /\ saved = <<>>

\* Loading another input directory and starting over on it, the module
\* (and so its cache) staying imported.
Reload(f) ==
    /\ pc = "loop"
    /\ f # files
    /\ \E b \in {load_board(f.start)}, hp \in {load_tunnels(f.h)}, vp \in {load_tunnels(f.v)} :
        /\ files' = f
        /\ board' = b.board /\ width' = b.width /\ height' = b.height
        /\ h_portals_loc' = hp.loc /\ h_portals_color' = hp.color
        /\ v_portals_loc' = vp.loc /\ v_portals_color' = vp.color
    /\ live_neighbors' = EmptyDict
    /\ prev_board' = EmptyDict
    /\ prev_memo' = EmptyDict
    /\ UNCHANGED <<pc, memo_neighbors, i, saved>>

----------------------------------------------------------------------------
(* Input files *)

\* The images of height h and width w over a palette.
Images(h, w, palette) ==
    {[width |-> w, height |-> h, pixels |-> p] : p \in [Range(w) \X Range(h) -> palette]}

\* The pixels <<x, y>> of an image that are not BLACK.
Coloured(img) == {xy \in DOMAIN img.pixels : img.pixels[xy] # BLACK}

\* The h-by-w image that is WHITE exactly at the Locations in live.
StartImage(h, w, live) ==
    [width |-> w, height |-> h,
     pixels |-> [xy \in Range(w) \X Range(h) |->
                    IF <<xy[2], xy[1]>> \in live THEN WHITE ELSE BLACK]]

Blank(h, w) == StartImage(h, w, {})

AllWhite(h, w) == StartImage(h, w, Locs(h, w))

\* A tunnel image with one RED pair, in opposite corners.
CornerPair(h, w) ==
    [width |-> w, height |-> h,
     pixels |-> [xy \in Range(w) \X Range(h) |->
                    IF xy = <<0, 0>> \/ xy = <<w - 1, h - 1>> THEN RED ELSE BLACK]]

\* Tunnel images holding no portal or exactly one RED pair.
PairImages(h, w) ==
    {img \in Images(h, w, {BLACK, RED}) : Cardinality(Coloured(img)) \in {0, 2}}

\* Starting images with no, one or every cell alive.
BasisStarts(h, w) ==
    {StartImage(h, w, live) : live \in {{}, Locs(h, w)} \cup {{loc} : loc \in Locs(h, w)}}

Files(start, h, v, dir) == [start |-> start, h |-> h, v |-> v, input_dir |-> dir]

----------------------------------------------------------------------------
(* SpecLoad: main's loading phase, with every image up to TunH x TunW over *)
(* three colours as both tunnel files.                                     *)

TunH == 2
TunW == 2

InitLoad ==
    \E h \in 1 .. TunH, w \in 1 .. TunW :
        \E t \in Images(h, w, {BLACK, WHITE, RED}) :
            Start(Files(Blank(TunH, TunW), t, t, <<"d">>))

NextLoad == LoadBoard \/ LoadTunnelsH \/ LoadTunnelsV

SpecLoad == InitLoad /\ [][NextLoad]_vars

----------------------------------------------------------------------------
(* SpecNbr: step on an NbrH x NbrW grid, for every placement of at most    *)
(* one pair per orientation and the starting grids of BasisStarts.         *)

NbrH == 2
NbrW == 2

NbrStarts == BasisStarts(NbrH, NbrW)

NbrTunnels == PairImages(NbrH, NbrW)

InitNbr ==
    \E st \in NbrStarts, hi \in NbrTunnels, vi \in NbrTunnels :
        Loaded(Files(st, hi, vi, <<"d">>))

SpecNbr == InitNbr /\ [][Step]_vars

----------------------------------------------------------------------------
(* SpecLife: step without portals, on every grid up to LifeH x LifeW.      *)

LifeH == 2
LifeW == 3

InitLife ==
    \E h \in 1 .. LifeH, w \in 1 .. LifeW :
        \E st \in Images(h, w, {BLACK, WHITE}) :
            Loaded(Files(st, Blank(h, w), Blank(h, w), <<"d">>))

SpecLife == InitLife /\ [][Step]_vars

----------------------------------------------------------------------------
(* SpecCache: a caller that keeps the module imported while it steps,      *)
(* switches to other inputs (square grids up to CacheN, with or without a  *)
(* corner pair per orientation) and calls get_actual_neighbor directly.    *)

CacheN == 2

CacheFiles ==
    UNION {{Files(AllWhite(n, n), hi, vi, <<"d">>) :
                hi \in {Blank(n, n), CornerPair(n, n)},
                vi \in {Blank(n, n), CornerPair(n, n)}} :
           n \in 1 .. CacheN}

InitCache == \E f \in CacheFiles : Loaded(f)

NextCache ==
    \/ Step
    \/ \E f \in CacheFiles : Reload(f)
    \/ \E loc \in Locs(height, width), k \in 1 .. Len(Offsets) :
          GetActualNeighbor(loc[1], loc[2], Offsets[k][1], Offsets[k][2])

SpecCache == InitCache /\ [][NextCache]_vars

----------------------------------------------------------------------------
(* Spec: main, from its first read to the end of the loop, on a MainH x    *)
(* MainW starting image and tunnel images of that size or one larger.      *)

MainH == 2
MainW == 2

\* The three images of an input directory: a full grid without portals,
\* a grid with one dead corner and a corner pair in each tunnel image, and
\* a full grid with a horizontal tunnel image one larger than the grid.
MainInputs ==
    {<<AllWhite(MainH, MainW), Blank(MainH, MainW), Blank(MainH, MainW)>>,
     <<StartImage(MainH, MainW, Locs(MainH, MainW) \ {<<0, 0>>}),
       CornerPair(MainH, MainW), CornerPair(MainH, MainW)>>,
     <<AllWhite(MainH, MainW), CornerPair(MainH + 1, MainW + 1), CornerPair(MainH, MainW)>>}

MainFiles ==
    {Files(t[1], t[2], t[3], dir) : t \in MainInputs, dir \in {<<"d">>, <<"d", "/">>}}

Init == \E f \in MainFiles : Start(f)

Next == LoadBoard \/ LoadTunnelsH \/ LoadTunnelsV \/ MainLoop

\* One thread that runs until it returns: a step that can be taken is taken.
Spec == Init /\ [][Next]_vars /\ WF_vars(Next)

----------------------------------------------------------------------------
(* The claims' vocabulary, stated on the state main holds *)

InGrid(loc) == 0 <= loc[1] /\ loc[1] < height /\ 0 <= loc[2] /\ loc[2] < width

Cells == Locs(height, width)

OffsetSet == {Offsets[k] : k \in 1 .. Len(Offsets)}

VEnd(loc) == loc \in DOMAIN v_portals_loc
HEnd(loc) == loc \in DOMAIN h_portals_loc

\* The other endpoint of the pair an index registers loc in.
Partner(by_loc, by_color, loc) ==
    CHOOSE p \in {by_color[by_loc[loc]][1], by_color[by_loc[loc]][2]} : p # loc

VPartner(loc) == Partner(v_portals_loc, v_portals_color, loc)
HPartner(loc) == Partner(h_portals_loc, h_portals_color, loc)

\* The four departure conditions of a cell and an offset, and what each
\* rule returns.
TopHolds(loc, off) == VEnd(loc) /\ off[1] = -1
RightHolds(loc, off) == HEnd(loc) /\ off[2] = 1
BottomHolds(loc, off) == VEnd(loc) /\ off[1] = 1
LeftHolds(loc, off) == HEnd(loc) /\ off[2] = -1

TopResult(loc, off) == <<VPartner(loc)[1] - 1, VPartner(loc)[2] + off[2]>>
RightResult(loc, off) == <<HPartner(loc)[1] + off[1], HPartner(loc)[2] + 1>>
BottomResult(loc, off) == <<VPartner(loc)[1] + 1, VPartner(loc)[2] + off[2]>>
LeftResult(loc, off) == <<HPartner(loc)[1] + off[1], HPartner(loc)[2] - 1>>

AnyDeparture(loc, off) ==
    TopHolds(loc, off) \/ RightHolds(loc, off) \/ BottomHolds(loc, off) \/ LeftHolds(loc, off)

NumDepartures(loc, off) ==
    Cardinality({n \in 1 .. 4 :
        \/ n = 1 /\ TopHolds(loc, off)
        \/ n = 2 /\ RightHolds(loc, off)
        \/ n = 3 /\ BottomHolds(loc, off)
        \/ n = 4 /\ LeftHolds(loc, off)})

\* The result of the first departure rule that holds, top > right > bottom > left.
FirstDeparture(loc, off) ==
    IF TopHolds(loc, off) THEN TopResult(loc, off)
    ELSE IF RightHolds(loc, off) THEN RightResult(loc, off)
    ELSE IF BottomHolds(loc, off) THEN BottomResult(loc, off)
    ELSE LeftResult(loc, off)

\* The arithmetic neighbour, and the four symmetric sub-rules a - d on it.
Std(loc, off) == <<loc[1] + off[1], loc[2] + off[2]>>

SymA(loc, off) == VEnd(Std(loc, off)) /\ off[1] = 1
SymB(loc, off) == HEnd(Std(loc, off)) /\ off[2] = -1
SymC(loc, off) == VEnd(Std(loc, off)) /\ off[1] = -1
SymD(loc, off) == HEnd(Std(loc, off)) /\ off[2] = 1

SymAResult(loc, off) ==
    <<VPartner(Std(loc, off))[1] - 1, VPartner(Std(loc, off))[2] + (loc[2] - Std(loc, off)[2])>>
SymBResult(loc, off) ==
    <<HPartner(Std(loc, off))[1] + (loc[1] - Std(loc, off)[1]), HPartner(Std(loc, off))[2] - 1>>
SymCResult(loc, off) ==
    <<VPartner(Std(loc, off))[1] + 1, VPartner(Std(loc, off))[2] + (loc[2] - Std(loc, off)[2])>>
SymDResult(loc, off) ==
    <<HPartner(Std(loc, off))[1] + (loc[1] - Std(loc, off)[1]), HPartner(Std(loc, off))[2] + 1>>

AnySymmetric(loc, off) ==
    /\ InGrid(Std(loc, off))
    /\ SymA(loc, off) \/ SymB(loc, off) \/ SymC(loc, off) \/ SymD(loc, off)

FirstSymmetric(loc, off) ==
    IF SymA(loc, off) THEN SymAResult(loc, off)
    ELSE IF SymB(loc, off) THEN SymBResult(loc, off)
    ELSE IF SymC(loc, off) THEN SymCResult(loc, off)
    ELSE SymDResult(loc, off)

\* What get_actual_neighbor returned for a cell and an offset during the
\* last step, read from the cache the step left.
Key(loc, off) == <<loc[1], loc[2], off[1], off[2]>>
Resolved(loc, off) == memo_neighbors[Key(loc, off)]

\* The last step resolved every offset of every cell of the grid.
Stepped ==
    /\ pc # "crashed"
    /\ prev_board # EmptyDict
    /\ DOMAIN memo_neighbors = {Key(loc, off) : loc \in Cells, off \in OffsetSet}

----------------------------------------------------------------------------
(* C1 *)

\* The Locations of an image that hold a colour.
Occurrences(img, color) ==
    {loc \in Locs(img.height, img.width) : img.pixels[<<loc[2], loc[1]>>] = color}

\* a comes before b in the row-major scan.
RowMajorBefore(a, b) == a[1] < b[1] \/ (a[1] = b[1] /\ a[2] < b[2])

\* The first Location of a non-empty set in row-major order.
FirstOf(S) == CHOOSE a \in S : \A b \in S : a = b \/ RowMajorBefore(a, b)

\* The first two occurrences of a colour, in scan order.
FirstTwo(img, color) ==
    <<FirstOf(Occurrences(img, color)),
      FirstOf(Occurrences(img, color) \ {FirstOf(Occurrences(img, color))})>>

\* The non-background colours an image holds at least twice.
PairColours(img) ==
    {color \in {img.pixels[xy] : xy \in DOMAIN img.pixels} \ {BLACK} :
        Cardinality(Occurrences(img, color)) >= 2}

\* by_loc and by_color are the index the claim describes for the image.
IsIndexOf(img, by_loc, by_color) ==
    /\ DOMAIN by_color = PairColours(img)
    /\ \A color \in DOMAIN by_color : by_color[color] = FirstTwo(img, color)
    /\ DOMAIN by_loc =
          UNION {{FirstTwo(img, color)[1], FirstTwo(img, color)[2]} : color \in PairColours(img)}
    /\ \A loc \in DOMAIN by_loc : by_loc[loc] = img.pixels[<<loc[2], loc[1]>>]
    /\ \A color \in DOMAIN by_color :
          /\ Len(by_color[color]) = 2
          /\ \A n \in 1 .. 2 : /\ by_color[color][n] \in DOMAIN by_loc
                               /\ by_loc[by_color[color][n]] = color
    /\ \A color \in {img.pixels[xy] : xy \in DOMAIN img.pixels} :
          Cardinality(Occurrences(img, color)) = 1 =>
              /\ color \notin DOMAIN by_color
              /\ \A loc \in DOMAIN by_loc : by_loc[loc] # color

\* C1: each load_tunnels call returns the index of its image: byColor maps
\* exactly the non-background colours that occur at least twice to their
\* first two Locations in row-major order, byLocation maps exactly those
\* Locations to their colour, and a colour that occurs once is in neither.
C1_LoadTunnelsIndex ==
    /\ pc \in {"load_v", "loop"} => IsIndexOf(files.h, h_portals_loc, h_portals_color)
    /\ pc = "loop" => IsIndexOf(files.v, v_portals_loc, v_portals_color)

\* A loaded image in which one colour occurs three times, its first two
\* occurrences are not its last two, and another colour occurs once.
C1_Witness ==
    /\ pc = "load_v"
    /\ Cardinality(Occurrences(files.h, RED)) = 3
    /\ Cardinality(Occurrences(files.h, WHITE)) = 1
    /\ h_portals_color[RED] = <<(<<0, 1>>), (<<1, 0>>)>>
    /\ DOMAIN h_portals_loc = {<<0, 1>>, <<1, 0>>}

----------------------------------------------------------------------------
(* C2 *)

\* The live arithmetic neighbours of a cell on an h-by-w board, cells
\* off the grid counting as dead.
LiveArithmetic(b, loc, h, w) ==
    Cardinality({off \in OffsetSet : Std(loc, off) \in Locs(h, w) /\ b[Std(loc, off)] = 1})

\* The standard Game of Life next generation of an h-by-w board.
StandardLife(b, h, w) ==
    [loc \in Locs(h, w) |->
        IF b[loc] = 1
        THEN (IF LiveArithmetic(b, loc, h, w) \in {2, 3} THEN 1 ELSE 0)
        ELSE (IF LiveArithmetic(b, loc, h, w) = 3 THEN 1 ELSE 0)]

NoPortals ==
    /\ h_portals_loc = EmptyDict /\ h_portals_color = EmptyDict
    /\ v_portals_loc = EmptyDict /\ v_portals_color = EmptyDict

LiveCells(b) == {loc \in DOMAIN b : b[loc] = 1}

\* The live cells of b are exactly one 2x2 block.
IsBlock(b) ==
    \E loc \in DOMAIN b :
        LiveCells(b) = {loc, <<loc[1], loc[2] + 1>>, <<loc[1] + 1, loc[2]>>,
                        <<loc[1] + 1, loc[2] + 1>>}

\* C2: with both portal indices empty, the board step returns is the
\* standard Game of Life next generation of the board it was given, off-grid
\* cells dead; so a 2x2 live block is returned unchanged, after any number
\* of generations, and a lone live cell is dead after one.
C2_StandardLife ==
    (prev_board # EmptyDict /\ NoPortals) =>
        /\ pc # "crashed"
        /\ board = StandardLife(prev_board, height, width)
        /\ IsBlock(prev_board) => board = prev_board
        /\ Cardinality(LiveCells(prev_board)) = 1 => LiveCells(board) = {}

\* A block on a grid wider than it came back from step unchanged.
C2_Witness ==
    /\ NoPortals
    /\ width = 3
    /\ prev_board # EmptyDict
    /\ IsBlock(prev_board)
    /\ board = prev_board

----------------------------------------------------------------------------
(* C3 *)

\* C3: for every cell of the grid and every offset, when one or more
\* departure conditions hold, get_actual_neighbor returned the result of
\* the first in the order top > right > bottom > left, unaltered by a later
\* departure rule or by the symmetric check; a cell that is both a Vertical
\* and a Horizontal endpoint resolved offset (-1, 0) through the Vertical
\* portal and offset (0, +1) through the Horizontal one.
C3_FirstDepartureWins ==
    Stepped =>
        \A loc \in Cells :
            /\ \A off \in OffsetSet :
                  AnyDeparture(loc, off) => Resolved(loc, off) = FirstDeparture(loc, off)
            /\ (VEnd(loc) /\ HEnd(loc)) =>
                  /\ Resolved(loc, <<-1, 0>>) = TopResult(loc, <<-1, 0>>)
                  /\ Resolved(loc, <<0, 1>>) = RightResult(loc, <<0, 1>>)

\* A cell that is an endpoint of both orientations was resolved at the
\* offset (-1, +1), where the top and the right rule hold and disagree, and
\* at (-1, 0) and (0, +1).
C3_Witness ==
    /\ Stepped
    /\ \E loc \in Cells :
          /\ VEnd(loc) /\ HEnd(loc)
          /\ TopResult(loc, <<-1, 1>>) # RightResult(loc, <<-1, 1>>)
          /\ Resolved(loc, <<-1, 1>>) = TopResult(loc, <<-1, 1>>)
          /\ Resolved(loc, <<-1, 0>>) = TopResult(loc, <<-1, 0>>)
          /\ Resolved(loc, <<0, 1>>) = RightResult(loc, <<0, 1>>)

----------------------------------------------------------------------------
(* C4 *)

\* C4: for every cell of the grid and every offset at which no departure
\* condition holds, get_actual_neighbor returned the result of the first
\* matching symmetric sub-rule in the order a, b, c, d when the arithmetic
\* neighbour is in bounds and some sub-rule matches it, and the arithmetic
\* neighbour (r + dr, c + dc) otherwise.
C4_SymmetricOrDefault ==
    Stepped =>
        \A loc \in Cells, off \in OffsetSet :
            ~AnyDeparture(loc, off) =>
                Resolved(loc, off) = IF AnySymmetric(loc, off)
                                     THEN FirstSymmetric(loc, off)
                                     ELSE Std(loc, off)

\* A cell that departs through nothing was resolved at an offset whose
\* arithmetic neighbour matches sub-rules a and b with different results,
\* and at another offset whose arithmetic neighbour is off the grid.
C4_Witness ==
    /\ Stepped
    /\ \E loc \in Cells, off \in OffsetSet :
          /\ ~AnyDeparture(loc, off)
          /\ InGrid(Std(loc, off))
          /\ SymA(loc, off) /\ SymB(loc, off)
          /\ SymAResult(loc, off) # SymBResult(loc, off)
          /\ Resolved(loc, off) = SymAResult(loc, off)
    /\ \E loc \in Cells, off \in OffsetSet :
          /\ ~AnyDeparture(loc, off)
          /\ ~InGrid(Std(loc, off))
          /\ Resolved(loc, off) = Std(loc, off)

----------------------------------------------------------------------------
(* C5 *)

\* The offsets, each counted for itself, at which a cell's resolved
\* neighbour is inside the grid and was alive on the board step was given.
LiveResolved(loc) ==
    {k \in 1 .. Len(Offsets) :
        /\ InGrid(Resolved(loc, Offsets[k]))
        /\ prev_board[Resolved(loc, Offsets[k])] = 1}

\* C5: for every cell, count_live_neighbors returned the sum over the eight
\* offsets of the live state of the resolved Location when it is inside
\* the grid and 0 when it is outside, each offset counted independently;
\* the count is in 0..8.
C5_CountResolvedInGrid ==
    Stepped =>
        \A loc \in Cells :
            /\ live_neighbors[loc] = Cardinality(LiveResolved(loc))
            /\ live_neighbors[loc] \in 0 .. 8

\* A cell was counted with two offsets resolving to one live Location,
\* both counted, and with an offset resolving off the grid in a direction
\* where wrap-around would have read a live cell.
C5_Witness ==
    /\ Stepped
    /\ \E loc \in Cells :
          /\ \E j \in LiveResolved(loc), k \in LiveResolved(loc) :
                j # k /\ Resolved(loc, Offsets[j]) = Resolved(loc, Offsets[k])
          /\ \E off \in OffsetSet :
                /\ ~InGrid(Resolved(loc, off))
                /\ Resolved(loc, off)[1] < height /\ Resolved(loc, off)[2] < width
                /\ prev_board[<<Resolved(loc, off)[1] % height,
                                Resolved(loc, off)[2] % width>>] = 1
          /\ live_neighbors[loc] = Cardinality(LiveResolved(loc))

----------------------------------------------------------------------------
(* C8 *)

EndpointsInGrid ==
    \A loc \in DOMAIN h_portals_loc \cup DOMAIN v_portals_loc : InGrid(loc)

\* A departure or symmetric rule determined the result for loc and off.
RuleDetermined(loc, off) == AnyDeparture(loc, off) \/ AnySymmetric(loc, off)

\* C8 as stated: with every endpoint inside the grid, whenever a departure
\* or symmetric rule determined the result of get_actual_neighbor, the
\* returned Location lies inside the grid.
C8_RuleResultInGrid ==
    (Stepped /\ EndpointsInGrid) =>
        \A loc \in Cells, off \in OffsetSet :
            RuleDetermined(loc, off) => InGrid(Resolved(loc, off))

\* C8, amended: with every endpoint inside the grid, whenever a departure
\* or symmetric rule determined the result of get_actual_neighbor, the
\* returned Location is at most one step off the grid:
\* -1 <= row <= height and -1 <= col <= width.
C8_RuleResultWithinOne ==
    (Stepped /\ EndpointsInGrid) =>
        \A loc \in Cells, off \in OffsetSet :
            RuleDetermined(loc, off) =>
                /\ -1 <= Resolved(loc, off)[1] /\ Resolved(loc, off)[1] <= height
                /\ -1 <= Resolved(loc, off)[2] /\ Resolved(loc, off)[2] <= width

\* With every endpoint inside the grid, a departure rule returned a
\* Location in row -1 and a symmetric rule returned one off the grid too.
C8_Witness ==
    /\ Stepped /\ EndpointsInGrid
    /\ \E loc \in Cells, off \in OffsetSet :
          AnyDeparture(loc, off) /\ Resolved(loc, off)[1] = -1
    /\ \E loc \in Cells, off \in OffsetSet :
          /\ ~AnyDeparture(loc, off) /\ AnySymmetric(loc, off)
          /\ ~InGrid(Resolved(loc, off))

----------------------------------------------------------------------------
(* C9 *)

\* C9 as stated: for every cell and every offset at most one of the four
\* departure conditions holds, a cell that is an endpoint of both
\* orientations included.
C9_AtMostOneDeparture ==
    Stepped => \A loc \in Cells, off \in OffsetSet : NumDepartures(loc, off) <= 1

\* loc is an endpoint of both orientations and off is diagonal.
BothAtDiagonal(loc, off) == VEnd(loc) /\ HEnd(loc) /\ off[1] # 0 /\ off[2] # 0

\* C9, amended: at most one departure condition holds for a cell and an
\* offset, and get_actual_neighbor returned that rule's result, except at a
\* diagonal offset of a cell that is an endpoint of both a Horizontal and a
\* Vertical portal: there exactly two hold, one per orientation, and
\* get_actual_neighbor returned the result of the earlier one in the order
\* top > right > bottom > left.
C9_AtMostOneUnlessBothAtDiagonal ==
    Stepped =>
        \A loc \in Cells, off \in OffsetSet :
            IF BothAtDiagonal(loc, off)
            THEN /\ NumDepartures(loc, off) = 2
                 /\ TopHolds(loc, off) # BottomHolds(loc, off)
                 /\ RightHolds(loc, off) # LeftHolds(loc, off)
                 /\ Resolved(loc, off) = FirstDeparture(loc, off)
            ELSE /\ NumDepartures(loc, off) <= 1
                 /\ TopHolds(loc, off) => Resolved(loc, off) = TopResult(loc, off)
                 /\ RightHolds(loc, off) => Resolved(loc, off) = RightResult(loc, off)
                 /\ BottomHolds(loc, off) => Resolved(loc, off) = BottomResult(loc, off)
                 /\ LeftHolds(loc, off) => Resolved(loc, off) = LeftResult(loc, off)

\* A cell that is an endpoint of both orientations was resolved at
\* (-1, -1), where the top and the left rule hold with different results,
\* and the top rule's was returned.
C9_Witness ==
    /\ Stepped
    /\ \E loc \in Cells :
          /\ BothAtDiagonal(loc, <<-1, -1>>)
          /\ TopHolds(loc, <<-1, -1>>) /\ LeftHolds(loc, <<-1, -1>>)
          /\ TopResult(loc, <<-1, -1>>) # LeftResult(loc, <<-1, -1>>)
          /\ Resolved(loc, <<-1, -1>>) = TopResult(loc, <<-1, -1>>)

----------------------------------------------------------------------------
(* C7 *)

\* The arguments the last step call was given besides the board.
CurrentArgs ==
    Args(width, height, h_portals_loc, h_portals_color, v_portals_loc, v_portals_color)

\* What get_actual_neighbor computes for a key when it finds no entry.
Computed(key, g) == Resolve(key[1], key[2], key[3], key[4], g).res

\* The live-neighbour count of a cell computed without any cache.
PureCount(b, loc, g) ==
    Cardinality({k \in 1 .. Len(Offsets) :
        /\ Computed(Key(loc, Offsets[k]), g) \in DOMAIN b
        /\ b[Computed(Key(loc, Offsets[k]), g)] = 1})

\* The next generation computed without any cache.
PureStep(b, g) == [loc \in DOMAIN b |-> Rule(b[loc], PureCount(b, loc, g))]

\* C7: whatever the cache held when step was called (entries of earlier
\* steps or of direct get_actual_neighbor calls, computed with other portal
\* indices or grid dimensions), step returned the grid a computation
\* without cache returns for its arguments, and the cache it left holds
\* only entries written during that step, each the value computed from
\* that step's arguments.
C7_StepIgnoresCache ==
    (prev_board # EmptyDict /\ pc # "crashed") =>
        /\ board = PureStep(prev_board, CurrentArgs)
        /\ DOMAIN memo_neighbors = {Key(loc, off) : loc \in Cells, off \in OffsetSet}
        /\ \A key \in DOMAIN memo_neighbors :
              memo_neighbors[key] = Computed(key, CurrentArgs)

\* step returned on a cache that, at the call, held an entry for a key of
\* this grid with another value than this grid's, and an entry for a cell
\* that this grid does not have.
C7_Witness ==
    /\ prev_board # EmptyDict /\ pc # "crashed"
    /\ \E key \in DOMAIN prev_memo :
          /\ key \in DOMAIN memo_neighbors
          /\ prev_memo[key] # Computed(key, CurrentArgs)
    /\ \E key \in DOMAIN prev_memo : <<key[1], key[2]>> \notin Cells
    /\ board = PureStep(prev_board, CurrentArgs)

----------------------------------------------------------------------------
(* C6 *)

\* The grid main loaded.
InitialGrid == load_board(files.start).board

\* step applied n times to b, computed without any cache; each
\* intermediate board is bound as an explicit table (f @@ EmptyDict is f,
\* enumerated) before it is stepped further.
RECURSIVE Iterated(_, _)
Iterated(b, n) ==
    IF n = 0 THEN b
    ELSE IF n % 2 = 0
    THEN The({Iterated(half, n \div 2) : half \in {Iterated(b, n \div 2)}})
    ELSE The({PureStep(before, CurrentArgs) @@ EmptyDict : before \in {Iterated(b, n - 1)}})

\* The iterations that are saved, in order, and the decimal numerals that
\* name their files.
SaveOrder == <<1, 10, 100, 1000>>

Numeral(n) ==
    CASE n = 1 -> <<"1">>
      [] n = 10 -> <<"1", "0">>
      [] n = 100 -> <<"1", "0", "0">>
      [] n = 1000 -> <<"1", "0", "0", "0">>

\* The file i.png of the directory every input directory here names.
PngOf(n) == <<"d", "/">> \o Numeral(n) \o <<".", "p", "n", "g">>

\* The state of main's loop is what i applications of step, in order from
\* the loaded grid, and the saves due up to iteration i leave.
LoopAsClaimed ==
    pc \in {"loop", "done"} =>
        /\ i \in 0 .. 1000
        /\ pc = "done" <=> i = 1000
        /\ Len(saved) = Cardinality({k \in 1 .. 4 : SaveOrder[k] <= i})
        /\ \A k \in 1 .. Len(saved) : saved[k].filepath = PngOf(SaveOrder[k])
        /\ i = 0 => board = InitialGrid
        /\ i \in {1, 10, 100, 1000} =>
              /\ board = Iterated(InitialGrid, i)
              /\ saved[Len(saved)].board = board
        /\ pc = "done" =>
              \A k \in 1 .. 4 : saved[k].board = Iterated(InitialGrid, SaveOrder[k])

\* One pass of the loop applies step once to the current board and saves
\* the result exactly when the new i is 1, 10, 100 or 1000.
PassAsClaimed ==
    pc = "loop" =>
        /\ i' = i + 1
        /\ board' = PureStep(board, CurrentArgs)
        /\ saved' = IF i' \in {1, 10, 100, 1000}
                    THEN Append(saved, [filepath |-> PngOf(i'), board |-> board'])
                    ELSE saved

\* C6: main's loop applies step exactly 1000 times, in order from the
\* loaded grid, and calls save_board exactly four times, at iterations 1,
\* 10, 100 and 1000 in that order, each time with the board that i
\* applications of step to the loaded grid give and the file name i.png;
\* then the loop terminates.
C6_ThousandStepsFourSaves ==
    /\ []LoopAsClaimed
    /\ [][PassAsClaimed]_vars
    /\ <>(pc = "done")

\* main has finished on a directory argument with a trailing slash and
\* portals that change the grid: four saves, named 1.png to 1000.png, the
\* first not the loaded grid.
C6_Witness ==
    /\ pc = "done"
    /\ i = 1000
    /\ files.input_dir = <<"d", "/">>
    /\ Len(saved) = 4
    /\ saved[1].filepath = <<"d", "/", "1", ".", "p", "n", "g">>
    /\ saved[4].filepath = <<"d", "/", "1", "0", "0", "0", ".", "p", "n", "g">>
    /\ saved[1].board # InitialGrid
    /\ saved[4].board = board

----------------------------------------------------------------------------
(* C10 *)

\* C10 as stated: every Location registered as a portal endpoint, of
\* either orientation, that the simulation uses is inside the grid,
\* whatever the dimensions of the tunnel images.
C10_EndpointsInsideGrid ==
    (pc \in {"loop", "done"} /\ i >= 1) => EndpointsInGrid

====
